---- MODULE Spec2Model ----
(***************************************************************************)
(* Model of the note storage engine of agentic-notes                       *)
(* (src/src/agentic_note/note.py): the Note entity, the NoteManager, the   *)
(* in-memory index, index.json and the per-note files; and of the command  *)
(* layer over it (src/src/agentic_note/cli.py): parse_tags and the exit    *)
(* status of process_command.                                              *)
(*                                                                         *)
(* Strings are sequences of one-character strings, so that lower(),        *)
(* substring tests and list membership are computed, not assumed.          *)
(* Timestamps are the strings datetime.isoformat() produces, modelled as   *)
(* sequences of fixed-width fields compared lexicographically.             *)
(***************************************************************************)
EXTENDS Integers, Sequences, FiniteSets, TLC

\* ---------------------------------------------------------------- bounds
\* Number of ids uuid4 can hand out (notes ever created in the directory).
MaxNotes == 3
\* Number of mutating calls (create, update, delete) in one run.
MaxOps == 3
\* Clock ticks per second: a reading on a whole second has microsecond 0.
TicksPerSecond == 2

\* ---------------------------------------------------------------- values
\* Python's Optional: None is the empty sequence, a present value v is <<v>>.
None == << >>
Some(v) == << v >>

NoteIds == 1..MaxNotes

\* Input strings: titles "Ab" and "b", contents "a" and "Ba", tags "a", "B"
\* and "ab".
TitleAb   == <<"A", "b">>
TitleB    == <<"b">>
ContentA  == <<"a">>
ContentBa == <<"B", "a">>
TagA  == <<"a">>
TagB  == <<"B">>
TagAB == <<"a", "b">>

\* Arguments of create_note: (title, content, tags), tags Optional.
CreateArgs ==
    { <<TitleAb, ContentA, None>>,
      <<TitleB, ContentBa, Some(<<TagAB>>)>>,
      <<TitleB, ContentA, Some(<<TagA, TagB>>)>> }

\* Arguments of update_note after the id: each of title, content and tags
\* absent or present.
UpdateArgs ==
    {None, Some(TitleB)} \X {None, Some(ContentBa)} \X {None, Some(<<TagA, TagB>>)}

\* Arguments of list_notes (Optional tag) and search_notes (query).
TagQueries == { None, Some(TagA), Some(<<"b">>), Some(TagAB) }
Queries    == { <<"a">>, <<"B", "A">>, <<"b">>, << >> }

VARIABLES
    index,      \* NoteManager.index: the dict, as its items in insertion order
    indexFile,  \* contents of index.json
    files,      \* the note files: id -> the six-field record of <id>.json
    now,        \* last reading of datetime.datetime.now(), in ticks
    used,       \* ids uuid4 has returned so far
    mgr,        \* "up": a NoteManager is constructed; "down": the process died
    deleted,    \* history: ids for which delete_note returned True
    lastRet,    \* history: id -> the Note last returned by create/update
    ret,        \* the last mutating call or construction and what it returned
    nops,       \* number of mutating calls made so far
    interrupts, \* history: the interrupted calls, as <<operation, id>>
    created,    \* history: id -> the id and created_at create_note returned
    indexJson,  \* index.json is "absent", "valid" (parses) or "corrupt"
    index2      \* Optional: the index of a second NoteManager on the directory

vars == <<index, indexFile, files, now, used, mgr, deleted, lastRet, ret, nops,
          interrupts, created, indexJson, index2>>

\* ------------------------------------------------------- string helpers
\* str.lower() on one character.
LowerChar(c) ==
    CASE c = "A" -> "a"
      [] c = "B" -> "b"
      [] OTHER   -> c

\* str.lower()
Lower(s) == [i \in 1..Len(s) |-> LowerChar(s[i])]

\* Python's `sub in s` for strings: sub occurs as a contiguous substring.
StrContains(sub, s) ==
    \E i \in 0..(Len(s) - Len(sub)) : SubSeq(s, i + 1, i + Len(sub)) = sub

\* Python's `x in lst` for lists: some element equals x.
ListContains(x, lst) == \E i \in 1..Len(lst) : lst[i] = x

\* datetime.isoformat(): seconds, and the microsecond part only when it is
\* not zero.
isoformat(t) ==
    IF t % TicksPerSecond = 0
    THEN << t \div TicksPerSecond >>
    ELSE << t \div TicksPerSecond, t % TicksPerSecond >>

\* Python's string order on timestamps: lexicographic, a proper prefix is
\* smaller.
RECURSIVE StrLess(_, _)
StrLess(a, b) ==
    IF Len(b) = 0 THEN FALSE
    ELSE IF Len(a) = 0 THEN TRUE
    ELSE IF a[1] # b[1] THEN a[1] < b[1]
    ELSE StrLess(Tail(a), Tail(b))

StrLeq(a, b) == a = b \/ StrLess(a, b)

\* ----------------------------------------------------------------- Note
\* The dataclass constructor followed by Note.__post_init__: fields passed
\* as None get their defaults (nowStr is the clock reading, newId a uuid4).
\* tags, created_at, updated_at and id are Optional.
NoteInit(title, content, tags, created_at, updated_at, id, nowStr, newId) ==
    [ title      |-> title,
      content    |-> content,
      tags       |-> IF tags = None THEN << >> ELSE tags[1],
      created_at |-> IF created_at = None THEN nowStr ELSE created_at[1],
      updated_at |-> IF updated_at = None THEN nowStr ELSE updated_at[1],
      id         |-> IF id = None THEN newId ELSE id[1] ]

\* Note.update with the tags overwritten also when the argument is absent.
NoteUpdate_TagsReset(note, title, content, tags, nowStr) ==
    [ title      |-> IF title # None THEN title[1] ELSE note.title,
      content    |-> IF content # None THEN content[1] ELSE note.content,
      tags       |-> IF tags # None THEN tags[1] ELSE << >>,
      created_at |-> note.created_at,
      updated_at |-> nowStr,
      id         |-> note.id ]

\* Note.update with the clock reading stored in the wrong timestamp field.
NoteUpdate_WrongStamp(note, title, content, tags, nowStr) ==
    [ title      |-> IF title # None THEN title[1] ELSE note.title,
      content    |-> IF content # None THEN content[1] ELSE note.content,
      tags       |-> IF tags # None THEN tags[1] ELSE note.tags,
      created_at |-> nowStr,
      updated_at |-> note.updated_at,
      id         |-> note.id ]
\* Note.update that reads the clock only when an argument is present.
NoteUpdate_StampIfChanged(note, title, content, tags, nowStr) ==
    [ title      |-> IF title # None THEN title[1] ELSE note.title,
      content    |-> IF content # None THEN content[1] ELSE note.content,
      tags       |-> IF tags # None THEN tags[1] ELSE note.tags,
      created_at |-> note.created_at,
      updated_at |-> IF title = None /\ content = None /\ tags = None
                     THEN note.updated_at ELSE nowStr,
      id         |-> note.id ]

\* Note.update: title, content and tags are Optional, None is "no change".
NoteUpdate(note, title, content, tags, nowStr) ==
    [ title      |-> IF title # None THEN title[1] ELSE note.title,
      content    |-> IF content # None THEN content[1] ELSE note.content,
      tags       |-> IF tags # None THEN tags[1] ELSE note.tags,
      created_at |-> note.created_at,
      updated_at |-> nowStr,
      id         |-> note.id ]
\* Note.to_dict with the two timestamps under each other's key.
to_dict_SwapStamps(note) ==
    [ title      |-> note.title,
      content    |-> note.content,
      tags       |-> note.tags,
      created_at |-> note.updated_at,
      updated_at |-> note.created_at,
      id         |-> note.id ]

\* Note.to_dict: asdict() of the six fields, as json.dump writes them.
to_dict(note) ==
    [ title      |-> note.title,
      content    |-> note.content,
      tags       |-> note.tags,
      created_at |-> note.created_at,
      updated_at |-> note.updated_at,
      id         |-> note.id ]

\* Note.from_dict that does not pass the stored updated_at on.
from_dict_NewStamp(data, nowStr, newId) ==
    NoteInit(data.title, data.content, Some(data.tags), Some(data.created_at),
             None, Some(data.id), nowStr, newId)

\* Note.from_dict: cls(**data), so __post_init__ runs on the loaded fields
\* (a stored field is never null, so it is passed as a present value).
from_dict(data, nowStr, newId) ==
    NoteInit(data.title, data.content, Some(data.tags), Some(data.created_at),
             Some(data.updated_at), Some(data.id), nowStr, newId)

\* ---------------------------------------------------------- index (dict)
\* dict.keys()
IndexKeys(idx) == { idx[i].id : i \in 1..Len(idx) }

\* dict[key]
IndexGet(idx, id) == LET i == CHOOSE j \in 1..Len(idx) : idx[j].id = id IN idx[i].info
\* dict[key] = value on the dict re-read from index.json instead of the
\* manager's own.
IndexSet_Reread(idx, id, info) ==
    IF id \in IndexKeys(indexFile)
    THEN [i \in 1..Len(indexFile) |->
            IF indexFile[i].id = id THEN [id |-> id, info |-> info] ELSE indexFile[i]]
    ELSE Append(indexFile, [id |-> id, info |-> info])

\* dict[key] = value: an existing key keeps its position, a new key is last.
IndexSet(idx, id, info) ==
    IF id \in IndexKeys(idx)
    THEN [i \in 1..Len(idx) |-> IF idx[i].id = id THEN [id |-> id, info |-> info] ELSE idx[i]]
    ELSE Append(idx, [id |-> id, info |-> info])

\* delete_note without its `del self.index[note_id]`.
IndexDel_Keep(idx, id) == idx

\* del dict[key]
IndexDel(idx, id) == SelectSeq(idx, LAMBDA e : e.id # id)

\* A file written at path `id`: created, or overwritten when it exists.
WriteFile(fs, id, data) ==
    [x \in (DOMAIN fs) \cup {id} |-> IF x = id THEN data ELSE fs[x]]
\* An unlink that empties the directory.
Unlink_All(fs, id) == << >>

\* pathlib.Path.unlink: the directory without the file.
Unlink(fs, id) == [x \in (DOMAIN fs) \ {id} |-> fs[x]]

\* An exists() check that is not made.
PathExists_Always(fs, id) == TRUE

\* pathlib.Path.exists
PathExists(fs, id) == id \in DOMAIN fs

\* The outcome of a call that raises instead of returning (open() for
\* reading, or unlink(), of a file that is not there).
Raise == << "FileNotFoundError", "raised" >>

\* --------------------------------------------------- environment reads
\* An id generator that can return an id again.
FreshIds_Reuse == NoteIds

\* The ids uuid.uuid4() has not returned yet.
FreshIds == NoteIds \ used

\* uuid.uuid4(): an id never returned before.  The program only stores ids
\* and compares them for equality, so which unused id comes next makes no
\* difference to it: the model hands them out in increasing order (0 when
\* the model's supply of ids is used up, where create_note is not called).
uuid4 == IF FreshIds = {} THEN 0
         ELSE CHOOSE i \in FreshIds : \A j \in FreshIds : i <= j

\* datetime.datetime.now(): the wall clock never runs backwards; since the
\* last reading it has stayed on the same tick or moved on by one.
ClockReadings == {now, now + 1}

\* ---------------------------------------------------------- NoteManager
\* The projection create_note stores in the index.
IndexEntryOf(note) ==
    [ title      |-> note.title,
      tags       |-> note.tags,
      created_at |-> note.created_at,
      updated_at |-> note.updated_at ]

\* update_note without the assignment to the entry's title.
IndexEntryUpdated_NoTitle(entry, note) ==
    [ entry EXCEPT !.tags = note.tags,
                   !.updated_at = note.updated_at ]
\* update_note that also stamps the entry's created_at.
IndexEntryUpdated_NewCreated(entry, note) ==
    [ entry EXCEPT !.title = note.title,
                   !.tags = note.tags,
                   !.created_at = note.updated_at,
                   !.updated_at = note.updated_at ]

\* The three assignments update_note makes to the index entry.
IndexEntryUpdated(entry, note) ==
    [ entry EXCEPT !.title = note.title,
                   !.tags = note.tags,
                   !.updated_at = note.updated_at ]

\* get_note without its exists() check.
get_note_in_NoExistsCheck(idx, fs, id, nowStr, newId) ==
    IF id \notin IndexKeys(idx) THEN None
    ELSE IF id \notin DOMAIN fs THEN Raise
    ELSE Some(from_dict(fs[id], nowStr, newId))
\* get_note without its index test: it reads whatever file has the id.
get_note_in_NoIndexCheck(idx, fs, id, nowStr, newId) ==
    IF ~PathExists(fs, id) THEN None
    ELSE IF id \notin DOMAIN fs THEN Raise
    ELSE Some(from_dict(fs[id], nowStr, newId))

\* NoteManager.get_note on index idx and files fs: None, or Some(note), or
\* Raise when open() does not find the file.
get_note_in(idx, fs, id, nowStr, newId) ==
    IF id \notin IndexKeys(idx) THEN None
    ELSE IF ~PathExists(fs, id) THEN None
    ELSE IF id \notin DOMAIN fs THEN Raise
    ELSE Some(from_dict(fs[id], nowStr, newId))

\* NoteManager.get_note in the current state.
get_note(id) ==
    get_note_in(index, files, id, isoformat(now), uuid4)

\* list.sort(key=updated_at, reverse=True) inserts one record into a list
\* already sorted: after every record whose key is >= its own (the sort is
\* stable, also with reverse=True).
RECURSIVE InsertDesc(_, _)
InsertDesc(sorted, r) ==
    IF sorted = << >> THEN << r >>
    ELSE IF StrLess(Head(sorted).updated_at, r.updated_at)
         THEN << r >> \o sorted
         ELSE << Head(sorted) >> \o InsertDesc(Tail(sorted), r)

\* list.sort(key=lambda x: x["updated_at"], reverse=True)
RECURSIVE SortDesc(_)
SortDesc(recs) ==
    IF recs = << >> THEN << >>
    ELSE InsertDesc(SortDesc(SubSeq(recs, 1, Len(recs) - 1)), recs[Len(recs)])

\* {"id": note_id, **note_info}
ListRecord(e) ==
    [ id         |-> e.id,
      title      |-> e.info.title,
      tags       |-> e.info.tags,
      created_at |-> e.info.created_at,
      updated_at |-> e.info.updated_at ]

\* {"id": note_id, **note_info, "matched": m}
SearchRecord(e, m) ==
    [ id         |-> e.id,
      title      |-> e.info.title,
      tags       |-> e.info.tags,
      created_at |-> e.info.created_at,
      updated_at |-> e.info.updated_at,
      matched    |-> m ]

\* A tag test that matches inside a tag.
TagMatches_Substring(tag, info) ==
    tag = None \/ \E i \in 1..Len(info.tags) : StrContains(tag[1], info.tags[i])

\* The test list_notes applies to an index entry; tag is Optional.
TagMatches(tag, info) == tag = None \/ ListContains(tag[1], info.tags)

\* The loop of list_notes: the matching entries, in dict order.
RECURSIVE ListLoop(_, _)
ListLoop(idx, tag) ==
    IF idx = << >> THEN << >>
    ELSE (IF TagMatches(tag, Head(idx).info) THEN << ListRecord(Head(idx)) >> ELSE << >>)
         \o ListLoop(Tail(idx), tag)
\* list_notes that leaves out the entries whose note file is missing.
list_notes_in_CheckFiles(idx, tag) ==
    SortDesc(ListLoop(SelectSeq(idx, LAMBDA e : e.id \in DOMAIN files), tag))

\* NoteManager.list_notes on index idx.
list_notes_in(idx, tag) == SortDesc(ListLoop(idx, tag))

\* The loop of search_notes (q is the lowered query): the matching
\* entries, in dict order.
RECURSIVE SearchLoop(_, _, _, _, _, _)
SearchLoop(rest, idx, fs, q, nowStr, newId) ==
    IF rest = << >> THEN << >>
    ELSE LET e    == Head(rest)
             note == get_note_in(idx, fs, e.id, nowStr, newId)
             hit  == IF StrContains(q, Lower(e.info.title))
                     THEN << SearchRecord(e, "title") >>
                     ELSE IF note # None /\ note # Raise
                             /\ StrContains(q, Lower(note[1].content))
                          THEN << SearchRecord(e, "content") >>
                          ELSE << >>
         IN hit \o SearchLoop(Tail(rest), idx, fs, q, nowStr, newId)

\* Whether search_notes raises: get_note raises for an entry whose title
\* does not match.
search_notes_raises(idx, fs, query, nowStr, newId) ==
    \E i \in 1..Len(idx) :
        /\ ~StrContains(Lower(query), Lower(idx[i].info.title))
        /\ get_note_in(idx, fs, idx[i].id, nowStr, newId) = Raise

\* search_notes without `query = query.lower()`.
search_notes_in_NoLower(idx, fs, query, nowStr, newId) ==
    SortDesc(SearchLoop(idx, idx, fs, query, nowStr, newId))

\* NoteManager.search_notes on index idx and files fs: what it returns when
\* it does not raise.
search_notes_in(idx, fs, query, nowStr, newId) ==
    SortDesc(SearchLoop(idx, idx, fs, Lower(query), nowStr, newId))

\* NoteManager.list_notes / search_notes in the current state.
list_notes(tag) == list_notes_in(index, tag)

search_notes(query) ==
    search_notes_in(index, files, query, isoformat(now), uuid4)

\* ----------------------------------------------------------------- Init
\* A NoteManager constructed on an empty storage directory: _load_index
\* finds no index.json, sets the empty index and saves it.
Init ==
    /\ index = << >>
    /\ indexFile = << >>
    /\ files = << >>
    /\ now = 0
    /\ used = {}
    /\ mgr = "up"
    /\ deleted = {}
    /\ lastRet = << >>
    /\ ret = [op |-> "init", arg |-> 0, val |-> None, exc |-> FALSE]
    /\ nops = 0
    /\ interrupts = {}
    /\ created = << >>
    /\ indexJson = "valid"
    /\ index2 = None

\* -------------------------------------------------------------- actions
\* NoteManager.create_note(title, content, tags)
CreateNote(title, content, tags) ==
    /\ mgr = "up"
    /\ nops < MaxOps
    /\ FreshIds # {}
    /\ \E t \in ClockReadings :
         LET newId == uuid4
             note  == NoteInit(title, content, tags, None, None, None,
                               isoformat(t), newId)
         IN /\ files' = WriteFile(files, note.id, to_dict(note))
            /\ index' = IndexSet(index, note.id, IndexEntryOf(note))
            /\ indexFile' = index'
            /\ now' = t
            /\ used' = used \cup {newId}
            /\ lastRet' = WriteFile(lastRet, note.id, note)
            /\ created' = WriteFile(created, note.id,
                                    [id |-> note.id, created_at |-> note.created_at])
            /\ ret' = [op |-> "create", arg |-> note.id, val |-> Some(note),
                       exc |-> FALSE]
    /\ nops' = nops + 1
    /\ UNCHANGED <<mgr, deleted, interrupts, indexJson, index2>>

\* NoteManager.get_note(note_id): returns get_note(id).
GetNote(id) ==
    /\ mgr = "up"
    /\ UNCHANGED vars

\* NoteManager.update_note(note_id, title, content, tags)
UpdateNote(id, title, content, tags) ==
    /\ mgr = "up"
    /\ nops < MaxOps
    /\ LET found == get_note(id) IN
       IF found = None \/ found = Raise
       THEN /\ ret' = [op |-> "update", arg |-> id, val |-> None,
                       exc |-> (found = Raise)]
            /\ UNCHANGED <<index, indexFile, files, now, lastRet>>
       ELSE \E t \in ClockReadings :
            LET note == NoteUpdate(found[1], title, content, tags, isoformat(t))
            IN /\ files' = WriteFile(files, note.id, to_dict(note))
               /\ index' = IndexSet(index, note.id,
                                    IndexEntryUpdated(IndexGet(index, note.id), note))
               /\ indexFile' = index'
               /\ now' = t
               /\ lastRet' = WriteFile(lastRet, note.id, note)
               /\ ret' = [op |-> "update", arg |-> id, val |-> Some(note),
                          exc |-> FALSE]
    /\ nops' = nops + 1
    /\ UNCHANGED <<used, mgr, deleted, interrupts, created, indexJson, index2>>

\* NoteManager.delete_note(note_id)
DeleteNote(id) ==
    /\ mgr = "up"
    /\ nops < MaxOps
    /\ IF id \notin IndexKeys(index)
       THEN /\ ret' = [op |-> "delete", arg |-> id, val |-> FALSE, exc |-> FALSE]
            /\ UNCHANGED <<index, indexFile, files, deleted, lastRet, created>>
       ELSE IF PathExists(files, id) /\ id \notin DOMAIN files
       THEN \* unlink() of a file that is not there raises
            /\ ret' = [op |-> "delete", arg |-> id, val |-> FALSE, exc |-> TRUE]
            /\ UNCHANGED <<index, indexFile, files, deleted, lastRet, created>>
       ELSE /\ files' = (IF PathExists(files, id) THEN Unlink(files, id) ELSE files)
            /\ index' = IndexDel(index, id)
            /\ indexFile' = index'
            /\ deleted' = deleted \cup {id}
            /\ lastRet' = Unlink(lastRet, id)
            /\ created' = Unlink(created, id)
            /\ ret' = [op |-> "delete", arg |-> id, val |-> TRUE, exc |-> FALSE]
    /\ nops' = nops + 1
    /\ UNCHANGED <<now, used, mgr, interrupts, indexJson, index2>>

\* list_notes that sorts the index itself, newest entry first, instead of
\* the list it returns.
ListNotes_SortsIndex(tag) ==
    /\ mgr = "up"
    /\ index' = [i \in 1..Len(index) |->
                   LET r == SortDesc(ListLoop(index, None))[i]
                   IN [id |-> r.id, info |-> IndexGet(index, r.id)]]
    /\ UNCHANGED <<indexFile, files, now, used, mgr, deleted, lastRet, ret,
                   nops, interrupts, created, indexJson, index2>>

\* NoteManager.list_notes(tag): returns list_notes(tag).
ListNotes(tag) ==
    /\ mgr = "up"
    /\ UNCHANGED vars

\* NoteManager.search_notes(query): returns search_notes(query).
SearchNotes(query) ==
    /\ mgr = "up"
    /\ UNCHANGED vars

Next ==
    \/ \E a \in CreateArgs : CreateNote(a[1], a[2], a[3])
    \/ \E id \in NoteIds : GetNote(id)
    \/ \E id \in NoteIds, a \in UpdateArgs : UpdateNote(id, a[1], a[2], a[3])
    \/ \E id \in NoteIds : DeleteNote(id)
    \/ \E tag \in TagQueries : ListNotes(tag)
    \/ \E query \in Queries : SearchNotes(query)

Spec == Init /\ [][Next]_vars
\* create_note that saves the index with the new entry first and is
\* interrupted before it writes the note file.
CreateInterrupted_IndexFirst(title, content, tags) ==
    /\ mgr = "up"
    /\ nops < MaxOps
    /\ FreshIds # {}
    /\ \E t \in ClockReadings :
         LET newId == uuid4
             note  == NoteInit(title, content, tags, None, None, None,
                               isoformat(t), newId)
         IN /\ indexFile' = IndexSet(index, note.id, IndexEntryOf(note))
            /\ now' = t
            /\ used' = used \cup {newId}
            /\ interrupts' = interrupts \cup { <<"create", newId>> }
    /\ index' = << >>
    /\ mgr' = "down"
    /\ nops' = nops + 1
    /\ UNCHANGED <<files, deleted, lastRet, ret, created, indexJson, index2>>

\* ------------------------------------------------ interruption, restart
\* create_note interrupted after the note file is written (line 105) and
\* before the index is saved: the process is gone, its index with it.
CreateInterrupted(title, content, tags) ==
    /\ mgr = "up"
    /\ nops < MaxOps
    /\ FreshIds # {}
    /\ \E t \in ClockReadings :
         LET newId == uuid4
             note  == NoteInit(title, content, tags, None, None, None,
                               isoformat(t), newId)
         IN /\ files' = WriteFile(files, note.id, to_dict(note))
            /\ now' = t
            /\ used' = used \cup {newId}
            /\ interrupts' = interrupts \cup { <<"create", newId>> }
    /\ index' = << >>
    /\ mgr' = "down"
    /\ nops' = nops + 1
    /\ UNCHANGED <<indexFile, deleted, lastRet, ret, created, indexJson, index2>>

\* update_note interrupted after the note file is rewritten (line 145) and
\* before the index is saved.
UpdateInterrupted(id, title, content, tags) ==
    /\ mgr = "up"
    /\ nops < MaxOps
    /\ LET found == get_note(id) IN
       /\ found # None
       /\ found # Raise
       /\ \E t \in ClockReadings :
            LET note == NoteUpdate(found[1], title, content, tags, isoformat(t))
            IN /\ files' = WriteFile(files, note.id, to_dict(note))
               /\ now' = t
    /\ index' = << >>
    /\ mgr' = "down"
    /\ nops' = nops + 1
    /\ interrupts' = interrupts \cup { <<"update", id>> }
    /\ UNCHANGED <<indexFile, used, deleted, lastRet, ret, created, indexJson,
                   index2>>

\* delete_note interrupted after the note file is unlinked (line 162) and
\* before the index is saved.
DeleteInterrupted(id) ==
    /\ mgr = "up"
    /\ nops < MaxOps
    /\ id \in IndexKeys(index)
    /\ PathExists(files, id)
    /\ id \in DOMAIN files
    /\ files' = Unlink(files, id)
    /\ index' = << >>
    /\ mgr' = "down"
    /\ nops' = nops + 1
    /\ interrupts' = interrupts \cup { <<"delete", id>> }
    /\ UNCHANGED <<indexFile, now, used, deleted, lastRet, ret, created,
                   indexJson, index2>>
\* NoteManager.__init__ that starts from the empty index, and saves it,
\* whatever index.json holds.
Construct_Reinit ==
    /\ mgr = "down"
    /\ indexJson = "valid"
    /\ index' = << >>
    /\ indexFile' = index'
    /\ mgr' = "up"
    /\ ret' = [op |-> "construct", arg |-> 0, val |-> None, exc |-> FALSE]
    /\ UNCHANGED <<files, now, used, deleted, lastRet, nops, interrupts,
                   created, indexJson, index2>>

\* NoteManager.__init__ on a directory where index.json exists and parses:
\* _load_index reads it.
Construct ==
    /\ mgr = "down"
    /\ indexJson = "valid"
    /\ index' = indexFile
    /\ mgr' = "up"
    /\ ret' = [op |-> "construct", arg |-> 0, val |-> None, exc |-> FALSE]
    /\ UNCHANGED <<indexFile, files, now, used, deleted, lastRet, nops,
                   interrupts, created, indexJson, index2>>

\* --------------------------------------- construction, exit, damaged index
\* A storage directory on which no NoteManager has been constructed yet:
\* no index.json, no note files.
InitDir ==
    /\ index = << >>
    /\ indexFile = << >>
    /\ files = << >>
    /\ now = 0
    /\ used = {}
    /\ mgr = "down"
    /\ deleted = {}
    /\ lastRet = << >>
    /\ ret = [op |-> "init", arg |-> 0, val |-> None, exc |-> FALSE]
    /\ nops = 0
    /\ interrupts = {}
    /\ created = << >>
    /\ indexJson = "absent"
    /\ index2 = None

\* NoteManager.__init__ on a directory without index.json: _load_index sets
\* the empty index and _save_index writes it.
ConstructFresh ==
    /\ mgr = "down"
    /\ indexJson = "absent"
    /\ index' = << >>
    /\ indexFile' = index'
    /\ indexJson' = "valid"
    /\ mgr' = "up"
    /\ ret' = [op |-> "construct", arg |-> 0, val |-> None, exc |-> FALSE]
    /\ UNCHANGED <<files, now, used, deleted, lastRet, nops, interrupts,
                   created, index2>>

\* The process ends between two calls.  The manager is gone; `index` keeps
\* what it held, to be compared with the index of the next manager.
Exit ==
    /\ mgr = "up"
    /\ index2 = None
    /\ mgr' = "down"
    /\ UNCHANGED <<index, indexFile, files, now, used, deleted, lastRet, ret,
                   nops, interrupts, created, indexJson, index2>>

\* While no manager runs, index.json is left unparseable by something
\* other than _save_index (a disk fault, an edit by hand): what it held is
\* gone.
IndexDamaged ==
    /\ mgr = "down"
    /\ indexJson = "valid"
    /\ indexJson' = "corrupt"
    /\ indexFile' = << >>
    /\ UNCHANGED <<index, files, now, used, mgr, deleted, lastRet, ret, nops,
                   interrupts, created, index2>>

\* NoteManager.__init__ that, on an index.json that does not parse, starts
\* from the empty index and saves it.
ConstructCorrupt_Reinit ==
    /\ mgr = "down"
    /\ indexJson = "corrupt"
    /\ index' = << >>
    /\ indexFile' = index'
    /\ indexJson' = "valid"
    /\ mgr' = "up"
    /\ ret' = [op |-> "construct", arg |-> 0, val |-> None, exc |-> FALSE]
    /\ UNCHANGED <<files, now, used, deleted, lastRet, nops, interrupts,
                   created, index2>>

\* NoteManager.__init__ on a directory whose index.json does not parse:
\* index.json exists, json.load (line 83) raises, __init__ does not return
\* and nothing was written.
ConstructCorrupt ==
    /\ mgr = "down"
    /\ indexJson = "corrupt"
    /\ ret' = [op |-> "construct", arg |-> 0, val |-> None, exc |-> TRUE]
    /\ UNCHANGED <<index, indexFile, files, now, used, mgr, deleted, lastRet,
                   nops, interrupts, created, indexJson, index2>>

NextRestart ==
    \/ Next
    \/ ConstructFresh
    \/ Exit
    \/ Construct
    \/ IndexDamaged
    \/ ConstructCorrupt

\* One manager at a time on a directory that starts without index.json:
\* managers end between calls and new ones are constructed.
SpecRestart == InitDir /\ [][NextRestart]_vars
\* ------------------------------------------- Note.to_dict / Note.from_dict
\* Arguments of the Note constructor: title, content, and each of tags,
\* created_at, updated_at and id absent or present.
NoteArgs ==
    {TitleAb, TitleB} \X {ContentA, ContentBa}
      \X {None, Some(<< >>), Some(<<TagA, TagB>>)}
      \X {None, Some(isoformat(0)), Some(isoformat(1))}
      \X {None, Some(isoformat(1)), Some(isoformat(3))}
      \X {None, Some(2), Some(3)}

\* A Note constructed from NoteArgs at clock reading 0 or 2 (uuid4 returns
\* 1), with no storage directory: ret holds the object, lastRet keeps it.
InitNote ==
    /\ \E a \in NoteArgs, t \in {0, 2} :
         LET n == NoteInit(a[1], a[2], a[3], a[4], a[5], a[6], isoformat(t), 1)
         IN /\ now = t
            /\ used = {1, n.id}
            /\ lastRet = WriteFile(<< >>, n.id, n)
            /\ ret = [op |-> "Note", arg |-> n.id, val |-> Some(n), exc |-> FALSE]
    /\ index = << >>
    /\ indexFile = << >>
    /\ files = << >>
    /\ mgr = "down"
    /\ deleted = {}
    /\ nops = 0
    /\ interrupts = {}
    /\ created = << >>
    /\ indexJson = "absent"
    /\ index2 = None

\* Note.to_dict() on the Note in ret.
NoteToDict ==
    /\ ret.op = "Note"
    /\ ret' = [op |-> "to_dict", arg |-> ret.arg,
               val |-> Some(to_dict(ret.val[1])), exc |-> FALSE]
    /\ UNCHANGED <<index, indexFile, files, now, used, mgr, deleted, lastRet,
                   nops, interrupts, created, indexJson, index2>>

\* Note.from_dict(data) on the dict in ret, at a later clock reading.
NoteFromDict ==
    /\ ret.op = "to_dict"
    /\ \E t \in ClockReadings :
         /\ now' = t
         /\ ret' = [op |-> "from_dict", arg |-> ret.arg,
                    val |-> Some(from_dict(ret.val[1], isoformat(t), uuid4)),
                    exc |-> FALSE]
    /\ UNCHANGED <<index, indexFile, files, used, mgr, deleted, lastRet,
                   nops, interrupts, created, indexJson, index2>>

NextNote ==
    \/ NoteToDict
    \/ NoteFromDict

\* Notes of every shape the constructor builds, serialised and read back.
SpecNote == InitNote /\ [][NextNote]_vars
\* -------------------------------------------------- command layer (cli.py)
\* str.split(","): the pieces of s between the commas, empty pieces kept.
RECURSIVE SplitComma(_)
SplitComma(s) ==
    IF \A i \in 1..Len(s) : s[i] # ","
    THEN << s >>
    ELSE LET i == CHOOSE k \in 1..Len(s) :
                    s[k] = "," /\ \A j \in 1..(k - 1) : s[j] # ","
         IN << SubSeq(s, 1, i - 1) >> \o SplitComma(SubSeq(s, i + 1, Len(s)))

\* str.strip(): s without its leading and trailing whitespace.
RECURSIVE Strip(_)
Strip(s) ==
    IF s = << >> THEN s
    ELSE IF Head(s) = " " THEN Strip(Tail(s))
    ELSE IF s[Len(s)] = " " THEN Strip(SubSeq(s, 1, Len(s) - 1))
    ELSE s

\* parse_tags that does not strip the items.
parse_tags_NoStrip(tags_str) ==
    IF tags_str = None \/ tags_str[1] = << >> THEN None
    ELSE Some(SelectSeq(SplitComma(tags_str[1]), LAMBDA t : Strip(t) # << >>))

\* parse_tags(tags_str): tags_str is Optional; None or "" gives None.
parse_tags(tags_str) ==
    IF tags_str = None \/ tags_str[1] = << >> THEN None
    ELSE LET pieces == SplitComma(tags_str[1])
         IN Some(SelectSeq([i \in 1..Len(pieces) |-> Strip(pieces[i])],
                           LAMBDA t : t # << >>))

\* Values of --tags on the command line (Optional): absent, "", "ab",
\* "a,B", " a ,, B", ",", " " and " a b ,".
TagStrings ==
    { None,
      Some(<< >>),
      Some(<<"a", "b">>),
      Some(<<"a", ",", "B">>),
      Some(<<" ", "a", " ", ",", ",", " ", "B">>),
      Some(<<",">>),
      Some(<<" ">>),
      Some(<<" ", "a", " ", "b", " ", ",">>) }

\* Arguments of the create command: title, content, --tags.
CliCreateArgs ==
    { <<TitleAb, ContentA, None>>,
      <<TitleAb, ContentA, Some(<< >>)>>,
      <<TitleB, ContentBa, Some(<<"a", "b">>)>>,
      <<TitleB, ContentA, Some(<<" ", "a", " ", ",", ",", " ", "B">>)>> }

\* Arguments of the update command after the id: --title, --content and
\* --tags, each absent or present.
CliUpdateArgs ==
    {None, Some(TitleB)} \X {None, Some(ContentBa)}
      \X {None, Some(<< >>), Some(<<"a", ",", "B">>), Some(<<",">>)}

\* The commands of the parser; None when no command is given.
Commands ==
    { None, Some("create"), Some("list"), Some("view"), Some("update"),
      Some("delete"), Some("search") }

\* process_command with the search of no match failing.
process_command_SearchFails(command, result) ==
    IF command = None THEN 1
    ELSE CASE command[1] = "create" -> 0
           [] command[1] = "list"   -> 0
           [] command[1] = "view"   -> (IF result # None THEN 0 ELSE 1)
           [] command[1] = "update" -> (IF result # None THEN 0 ELSE 1)
           [] command[1] = "delete" -> (IF result THEN 0 ELSE 1)
           [] command[1] = "search" -> (IF result # << >> THEN 0 ELSE 1)
           [] OTHER -> 1

\* process_command(args): the status it returns for args.command when the
\* NoteManager call of that command returned result (an Optional Note for
\* view and update, a boolean for delete, a list for list and search).
process_command(command, result) ==
    IF command = None THEN 1
    ELSE CASE command[1] = "create" -> 0
           [] command[1] = "list"   -> 0
           [] command[1] = "view"   -> (IF result # None THEN 0 ELSE 1)
           [] command[1] = "update" -> (IF result # None THEN 0 ELSE 1)
           [] command[1] = "delete" -> (IF result THEN 0 ELSE 1)
           [] command[1] = "search" -> (IF result # << >> THEN 0 ELSE 0)
           [] OTHER -> 1

\* note_manager = NoteManager(storage_dir) in process_command: a manager
\* whose index is what _load_index reads from index.json.
NoteManagerOnDir ==
    /\ mgr = "up"
    /\ indexJson = "valid"
    /\ index = indexFile

\* No command: help is printed before any NoteManager is constructed;
\* returns process_command(None, None).
CmdNone == UNCHANGED vars

\* create: returns process_command(Some("create"), ret'.val).
CmdCreate(title, content, tags_str) ==
    /\ NoteManagerOnDir
    /\ CreateNote(title, content, parse_tags(tags_str))

\* list: returns process_command(Some("list"), list_notes(tag)).
CmdList(tag) ==
    /\ NoteManagerOnDir
    /\ ListNotes(tag)

\* view: returns process_command(Some("view"), get_note(id)).
CmdView(id) ==
    /\ NoteManagerOnDir
    /\ GetNote(id)

\* update: parse_tags is applied when --tags is given; returns
\* process_command(Some("update"), ret'.val).
CmdUpdate(id, title, content, tags_str) ==
    /\ NoteManagerOnDir
    /\ UpdateNote(id, title, content,
                  IF tags_str # None THEN parse_tags(tags_str) ELSE None)

\* delete: returns process_command(Some("delete"), ret'.val).
CmdDelete(id) ==
    /\ NoteManagerOnDir
    /\ DeleteNote(id)

\* search: returns process_command(Some("search"), search_notes(query)).
CmdSearch(query) ==
    /\ NoteManagerOnDir
    /\ SearchNotes(query)

NextCli ==
    \/ CmdNone
    \/ \E a \in CliCreateArgs : CmdCreate(a[1], a[2], a[3])
    \/ \E tag \in TagQueries : CmdList(tag)
    \/ \E id \in NoteIds : CmdView(id)
    \/ \E id \in NoteIds, a \in CliUpdateArgs : CmdUpdate(id, a[1], a[2], a[3])
    \/ \E id \in NoteIds : CmdDelete(id)
    \/ \E query \in Queries : CmdSearch(query)

\* Commands run one after the other on one storage directory.
SpecCli == Init /\ [][NextCli]_vars
\* ------------------------------------------- two managers, one directory
\* A second NoteManager is constructed on the directory while the first is
\* alive: _load_index reads index.json once.  The new manager is the one
\* that acts next, its index is `index`; the first one keeps its own index,
\* held in index2.
ConstructSecond ==
    /\ mgr = "up"
    /\ index2 = None
    /\ indexJson = "valid"
    /\ index2' = Some(index)
    /\ index' = indexFile
    /\ UNCHANGED <<indexFile, files, now, used, mgr, deleted, lastRet, ret,
                   nops, interrupts, created, indexJson>>

\* The next call is made on the other manager: `index` and index2 change
\* places.  Neither manager reads index.json again.
Switch ==
    /\ mgr = "up"
    /\ index2 # None
    /\ index' = index2[1]
    /\ index2' = Some(index)
    /\ UNCHANGED <<indexFile, files, now, used, mgr, deleted, lastRet, ret,
                   nops, interrupts, created, indexJson>>

NextTwo ==
    \/ Next
    \/ ConstructSecond
    \/ Switch

\* Two managers on one directory; their completed calls interleave.
SpecTwo == Init /\ [][NextTwo]_vars

NextCrash ==
    \/ Next
    \/ \E a \in CreateArgs : CreateInterrupted(a[1], a[2], a[3])
    \/ \E id \in NoteIds, a \in UpdateArgs : UpdateInterrupted(id, a[1], a[2], a[3])
    \/ \E id \in NoteIds : DeleteInterrupted(id)
    \/ Construct

\* One manager at a time on the directory, with interruptions and restarts.
SpecCrash == Init /\ [][NextCrash]_vars

\* --------------------------------------------------------------- claims
\* A step of create_note, update_note or delete_note leaves the name of the
\* call in ret.op and its id in ret.arg; the properties of steps below test
\* ret' first and then the action itself.

\* Whether index idx (in memory or index.json) agrees with the note files:
\* the same ids, and for each the same title, tags and timestamps.
IndexAgreesWithFiles(idx) ==
    /\ IndexKeys(idx) = DOMAIN files
    /\ \A i \in 1..Len(idx) :
         LET e == idx[i].info
             f == files[idx[i].id]
         IN /\ e.title = f.title
            /\ e.tags = f.tags
            /\ e.created_at = f.created_at
            /\ e.updated_at = f.updated_at
            /\ f.id = idx[i].id

\* C1: after any sequence of completed create, update and delete calls on
\* one manager started on an empty directory, the index holds exactly the
\* ids of the note files, with the title, tags, created_at and updated_at
\* of each file.
C1_IndexFileAgreement ==
    /\ Cardinality(IndexKeys(index)) = Len(index)
    /\ IndexAgreesWithFiles(index)

\* C1 witness: two notes are stored and the last call updated one of them.
C1_Witness ==
    /\ Len(index) = 2
    /\ ret.op = "update"
    /\ ret.exc = FALSE
    /\ ret.val # None

\* C2: get_note of an id returns the note the last create or successful
\* update of that id returned, equal in all six fields, until that id is
\* updated or deleted again.
C2_ReadYourWrites ==
    \A id \in DOMAIN lastRet :
        LET got == get_note(id)
        IN /\ got # None
           /\ got # Raise
           /\ got[1].id = lastRet[id].id
           /\ got[1].title = lastRet[id].title
           /\ got[1].content = lastRet[id].content
           /\ got[1].tags = lastRet[id].tags
           /\ got[1].created_at = lastRet[id].created_at
           /\ got[1].updated_at = lastRet[id].updated_at

\* C2 witness: a note was returned earlier, and since then another id was
\* updated at a later clock reading.
C2_Witness ==
    /\ ret.op = "update"
    /\ ret.exc = FALSE
    /\ ret.val # None
    /\ \E id \in DOMAIN lastRet :
         /\ id # ret.arg
         /\ lastRet[id].updated_at # isoformat(now)

\* C3: create_note returns a note whose id is an id, different from the id
\* of every note created before, whose tags are empty when tags is omitted
\* and whose created_at equals its updated_at.
C3_CreateReturnsFreshNote ==
    [][ ret'.op = "create" =>
        \A a \in CreateArgs :
          CreateNote(a[1], a[2], a[3]) =>
            LET n == ret'.val[1]
            IN /\ ret'.op = "create"
               /\ n.id \in NoteIds
               /\ n.id \notin used
               /\ n.id = ret'.arg
               /\ (a[3] = None => n.tags = << >>)
               /\ n.created_at = n.updated_at
               /\ n.title = a[1]
               /\ n.content = a[2] ]_vars

\* C3 witness: a note was created with tags omitted after another note had
\* been created and deleted.
C3_Witness ==
    /\ ret.op = "create"
    /\ ret.val[1].tags = << >>
    /\ deleted # {}

\* C4: once delete_note(id) has returned True, get_note(id) finds nothing
\* and no file of id is on disk in every later state, and delete_note on
\* such an id, or on an id never created, returns False.
C4_DeletedStaysDeleted ==
    /\ [](\A id \in deleted : get_note(id) = None /\ id \notin DOMAIN files)
    /\ [][ ret'.op = "delete" =>
           \A id \in NoteIds :
             (DeleteNote(id) /\ (id \in deleted \/ id \notin used)) =>
               (ret'.exc = FALSE /\ ret'.val = FALSE) ]_vars

\* C4 witness: delete_note was called again on a deleted id and returned
\* False.
C4_Witness ==
    /\ ret.op = "delete"
    /\ ret.exc = FALSE
    /\ ret.val = FALSE
    /\ ret.arg \in deleted

\* C5: a successful update_note leaves every field among title, content and
\* tags whose argument is absent as it was, in the note file and in the
\* index entry, leaves created_at as it was, and does not decrease
\* updated_at.
C5_UpdateFrame ==
    [][ ret'.op = "update" =>
        \A a \in UpdateArgs :
          (get_note(ret'.arg) # None /\ UpdateNote(ret'.arg, a[1], a[2], a[3])) =>
            LET id == ret'.arg
                f  == files[id]
                g  == files'[id]
                e  == IndexGet(index, id)
                h  == IndexGet(index', id)
            IN /\ id \in IndexKeys(index') /\ id \in DOMAIN files'
               /\ (a[1] = None => g.title = f.title /\ h.title = e.title)
               /\ (a[1] # None => g.title = a[1][1] /\ h.title = a[1][1])
               /\ (a[2] = None => g.content = f.content)
               /\ (a[2] # None => g.content = a[2][1])
               /\ (a[3] = None => g.tags = f.tags /\ h.tags = e.tags)
               /\ (a[3] # None => g.tags = a[3][1] /\ h.tags = a[3][1])
               /\ g.created_at = f.created_at /\ h.created_at = e.created_at
               /\ g.id = f.id
               /\ StrLeq(f.updated_at, g.updated_at)
               /\ StrLeq(e.updated_at, h.updated_at) ]_vars

\* C5 witness: a note created as ("Ab", "a", no tags) was updated with tags
\* only, at a later clock reading.
C5_Witness ==
    /\ ret.op = "update"
    /\ ret.exc = FALSE
    /\ ret.val # None
    /\ ret.val[1].title = TitleAb
    /\ ret.val[1].content = ContentA
    /\ ret.val[1].tags = <<TagA, TagB>>
    /\ ret.val[1].created_at # ret.val[1].updated_at

\* The ids of the records of a result list.
RecordIds(recs) == { recs[i].id : i \in 1..Len(recs) }

\* A result list holds no id twice.
NoDuplicates(recs) == \A i, j \in 1..Len(recs) : recs[i].id = recs[j].id => i = j

\* A result list is ordered by updated_at, newest first.
NewestFirst(recs) ==
    \A i, j \in 1..Len(recs) : i < j => StrLeq(recs[j].updated_at, recs[i].updated_at)

\* Every record of a result list is the id with the fields of its index
\* entry.
RecordsOfIndex(recs) ==
    \A i \in 1..Len(recs) :
        /\ recs[i].id \in IndexKeys(index)
        /\ LET e == IndexGet(index, recs[i].id)
           IN /\ recs[i].title = e.title
              /\ recs[i].tags = e.tags
              /\ recs[i].created_at = e.created_at
              /\ recs[i].updated_at = e.updated_at

\* C6: list_notes(tag) returns one record for each indexed note that has
\* tag as a whole element of its tags (same case), and no other record;
\* list_notes() returns one record for each indexed note; both newest
\* first.
C6_ListNotes ==
    \A tag \in TagQueries :
        LET recs == list_notes(tag)
        IN /\ NoDuplicates(recs)
           /\ RecordsOfIndex(recs)
           /\ NewestFirst(recs)
           /\ RecordIds(recs) =
                { id \in IndexKeys(index) :
                    tag = None \/
                    \E k \in DOMAIN IndexGet(index, id).tags :
                        IndexGet(index, id).tags[k] = tag[1] }

\* C6 witness: two notes with different updated_at are indexed, one has the
\* tag "ab" and not the tag "a", the other has the tag "a".
C6_Witness ==
    /\ Len(list_notes(None)) = 2
    /\ list_notes(None)[1].updated_at # list_notes(None)[2].updated_at
    /\ Len(list_notes(Some(TagAB))) = 1
    /\ Len(list_notes(Some(TagA))) = 1
    /\ list_notes(Some(TagAB)) # list_notes(Some(TagA))

\* s contains q when case is ignored.
ContainsIgnoringCase(q, s) ==
    \E i \in 0..(Len(s) - Len(q)) :
        \A k \in 1..Len(q) : LowerChar(s[i + k]) = LowerChar(q[k])

\* C7: search_notes(query) returns every indexed note at most once: with
\* matched = "title" exactly the notes whose title contains the query, case
\* ignored, and with matched = "content" exactly the notes whose title does
\* not and whose content does; newest first.
C7_SearchNotes ==
    \A q \in Queries :
        LET recs == search_notes(q)
            byTitle   == { id \in IndexKeys(index) :
                             ContainsIgnoringCase(q, IndexGet(index, id).title) }
            byContent == { id \in IndexKeys(index) \ byTitle :
                             /\ id \in DOMAIN files
                             /\ ContainsIgnoringCase(q, files[id].content) }
        IN /\ NoDuplicates(recs)
           /\ RecordsOfIndex(recs)
           /\ NewestFirst(recs)
           /\ { recs[i].id : i \in { k \in 1..Len(recs) : recs[k].matched = "title" } }
                = byTitle
           /\ { recs[i].id : i \in { k \in 1..Len(recs) : recs[k].matched = "content" } }
                = byContent
           /\ \A i \in 1..Len(recs) : recs[i].matched \in {"title", "content"}

\* C7 witness: the query "a" finds one note by its title "Ab", whose
\* content "a" matches too, and an older or newer one by its content; the
\* query "BA" finds only the note with content "Ba".
C7_Witness ==
    LET recs == search_notes(<<"a">>)
    IN /\ Len(recs) = 2
       /\ recs[1].updated_at # recs[2].updated_at
       /\ \E i \in 1..2 : recs[i].matched = "title" /\ files[recs[i].id].content = ContentA
       /\ \E i \in 1..2 : recs[i].matched = "content"
       /\ Len(search_notes(<<"B", "A">>)) = 1

\* Whether id is in the index while its note file is not on disk.
StaleEntry(id) == id \in IndexKeys(index) /\ id \notin DOMAIN files

\* Whether get_note, update_note or delete_note is claimed to find nothing
\* for id: it is not in the index, or it is and its file is missing.
NotThere(id) == id \notin IndexKeys(index) \/ StaleEntry(id)

\* C8 as stated: get_note, update_note and delete_note return not-found (no
\* note, False) and do not raise, when the id is not in the index and also
\* when it is in the index but its file is missing.  (A step of update_note
\* leaves ret.op = "update", a step of delete_note ret.op = "delete".)
C8_Original ==
    /\ [](\A id \in NoteIds : (mgr = "up" /\ NotThere(id)) => get_note(id) = None)
    /\ [][ ret'.op = "update" =>
           \A a \in UpdateArgs :
             (NotThere(ret'.arg) /\ UpdateNote(ret'.arg, a[1], a[2], a[3])) =>
               (ret'.exc = FALSE /\ ret'.val = None) ]_vars
    /\ [][ ret'.op = "delete" =>
           ((NotThere(ret'.arg) /\ DeleteNote(ret'.arg)) =>
               (ret'.exc = FALSE /\ ret'.val = FALSE)) ]_vars

\* C8 as amended: get_note and update_note return no note, without raising
\* and without changing the index or a file, when the id is not in the
\* index and when it is in the index but its file is missing; delete_note
\* does not raise either and returns False when the id is not in the index,
\* and True when the id is in the index but its file is missing.
C8_NotFoundNeverRaises ==
    /\ [](\A id \in NoteIds : (mgr = "up" /\ NotThere(id)) => get_note(id) = None)
    /\ [][ ret'.op = "update" =>
           \A a \in UpdateArgs :
             (NotThere(ret'.arg) /\ UpdateNote(ret'.arg, a[1], a[2], a[3])) =>
               /\ ret'.exc = FALSE /\ ret'.val = None
               /\ UNCHANGED <<index, indexFile, files>> ]_vars
    /\ [][ ret'.op = "delete" =>
           ((NotThere(ret'.arg) /\ DeleteNote(ret'.arg)) =>
               /\ ret'.exc = FALSE
               /\ ret'.val = StaleEntry(ret'.arg)) ]_vars

\* C8 witness: update_note was called on an id that is in the index while
\* its file is missing, and returned no note.
C8_Witness ==
    /\ mgr = "up"
    /\ ret.op = "update"
    /\ ret.exc = FALSE
    /\ ret.val = None
    /\ StaleEntry(ret.arg)

\* C9: delete_note of an id that is in the index returns True and removes
\* its entry from the index in memory and from index.json, whether or not
\* the note file exists; afterwards no file of the id is on disk.
C9_DeleteToleratesMissingFile ==
    [][ ret'.op = "delete" =>
        LET id == ret'.arg IN
          (id \in IndexKeys(index) /\ DeleteNote(id)) =>
            /\ ret'.exc = FALSE /\ ret'.val = TRUE
            /\ id \notin IndexKeys(index')
            /\ id \notin IndexKeys(indexFile')
            /\ id \notin DOMAIN files'
            /\ \A other \in NoteIds \ {id} :
                 /\ (other \in IndexKeys(index')) = (other \in IndexKeys(index))
                 /\ (other \in DOMAIN files') = (other \in DOMAIN files) ]_vars

\* C9 witness: delete_note returned True for an id whose file was already
\* missing: an interrupted delete_note had unlinked it.
C9_Witness ==
    /\ ret.op = "delete"
    /\ ret.exc = FALSE
    /\ ret.val = TRUE
    /\ <<"delete", ret.arg>> \in interrupts

\* C10: in every note file and in every index entry, created_at <=
\* updated_at.
C10_CreatedBeforeUpdated ==
    /\ \A id \in DOMAIN files : StrLeq(files[id].created_at, files[id].updated_at)
    /\ \A i \in 1..Len(index) :
         StrLeq(index[i].info.created_at, index[i].info.updated_at)
    /\ \A i \in 1..Len(indexFile) :
         StrLeq(indexFile[i].info.created_at, indexFile[i].info.updated_at)

\* C10 witness: a note was updated at a later clock reading than it was
\* created at.
C10_Witness ==
    \E id \in DOMAIN files :
        /\ files[id].created_at # files[id].updated_at
        /\ id \in IndexKeys(index)
        /\ IndexGet(index, id).updated_at = files[id].updated_at

\* C11: the id and created_at of a note are fixed at creation: as long as
\* the note is not deleted, and after any number of successful update_note
\* calls, the note file is stored under the id create_note returned and
\* holds that id and the created_at create_note returned, and the index
\* (in memory and in index.json) holds an entry under that id with that
\* created_at.
C11_IdAndCreatedAtFixed ==
    \A id \in DOMAIN created :
        /\ created[id].id = id
        /\ id \in DOMAIN files
        /\ files[id].id = id
        /\ files[id].created_at = created[id].created_at
        /\ id \in IndexKeys(index)
        /\ IndexGet(index, id).created_at = created[id].created_at
        /\ id \in IndexKeys(indexFile)
        /\ IndexGet(indexFile, id).created_at = created[id].created_at

\* C11 witness: a note created at tick 0 was updated successfully twice,
\* at tick 1 and at tick 2 (no other id exists, so the clock was read by
\* updates of this note only).
C11_Witness ==
    /\ used = {1}
    /\ 1 \in DOMAIN created
    /\ created[1].created_at = isoformat(0)
    /\ files[1].updated_at = isoformat(2)
    /\ ret.op = "update"

\* C12: a NoteManager constructed on a directory without index.json
\* creates index.json holding the empty index; while a manager is up (after
\* every completed call) index.json holds the manager's index; and a
\* manager constructed after the previous one ended has the index the
\* previous one had, and returns what it returned for get_note, list_notes
\* and search_notes.
C12_DurableAcrossRestarts ==
    /\ [][ (indexJson = "absent" /\ mgr' = "up") =>
             (indexJson' = "valid" /\ indexFile' = << >> /\ index' = << >>) ]_vars
    /\ [](mgr = "up" => (indexJson = "valid" /\ indexFile = index))
    /\ [][ (mgr = "down" /\ mgr' = "up" /\ indexJson = "valid") =>
             /\ index' = index
             /\ indexFile' = indexFile
             /\ \A id \in NoteIds :
                  get_note_in(index', files', id, isoformat(now'), uuid4)
                    = get_note(id)
             /\ \A tag \in TagQueries : list_notes_in(index', tag) = list_notes(tag)
             /\ \A q \in Queries :
                  search_notes_in(index', files', q, isoformat(now'), uuid4)
                    = search_notes(q) ]_vars

\* C12 witness: a manager was constructed on a directory where the previous
\* manager had left one note and had deleted another.
C12_Witness ==
    /\ mgr = "up"
    /\ ret.op = "construct"
    /\ Len(index) = 1
    /\ deleted # {}

\* C14: constructing a NoteManager on a directory whose index.json exists
\* and does not parse fails with an error: no manager comes up, and
\* index.json and the note files are left as they were (the index is not
\* reinitialised); no manager is ever up on such a directory.
C14_CorruptIndexFailsConstruction ==
    /\ [][ (indexJson = "corrupt" /\ mgr = "down" /\ ret'.op = "construct") =>
             /\ ret'.exc = TRUE
             /\ mgr' = "down"
             /\ indexJson' = "corrupt"
             /\ indexFile' = indexFile
             /\ files' = files ]_vars
    /\ [][ indexJson = "corrupt" => (mgr' = "down" /\ files' = files) ]_vars
    /\ [](indexJson = "corrupt" => mgr = "down")

\* C14 witness: construction failed on a directory that holds two note
\* files and an index.json that does not parse.
C14_Witness ==
    /\ indexJson = "corrupt"
    /\ ret.op = "construct"
    /\ ret.exc = TRUE
    /\ Cardinality(DOMAIN files) = 2

\* C13: for every Note n, from_dict(to_dict(n)) equals n in all six fields
\* id, title, content, tags, created_at and updated_at: no field gets a
\* new id, a new timestamp or the default tags.
C13_RoundTrip ==
    ret.op = "from_dict" =>
        LET m == ret.val[1]
            n == lastRet[ret.arg]
        IN /\ m.id = n.id
           /\ m.title = n.title
           /\ m.content = n.content
           /\ m.tags = n.tags
           /\ m.created_at = n.created_at
           /\ m.updated_at = n.updated_at

\* C13 witness: a note with two tags and two different timestamps was read
\* back at a clock reading that is neither of them, when uuid4 would
\* return another id than the note's.
C13_Witness ==
    /\ ret.op = "from_dict"
    /\ ret.val[1].tags = <<TagA, TagB>>
    /\ ret.val[1].created_at # ret.val[1].updated_at
    /\ ret.val[1].created_at # isoformat(now)
    /\ ret.val[1].updated_at # isoformat(now)
    /\ ret.val[1].id # uuid4

\* The comma-separated items of string s, in order: the text between one
\* comma (or the start) and the next (or the end).
ItemsOf(s) ==
    LET commas == { i \in 1..Len(s) : s[i] = "," }
        n      == Cardinality(commas)
        bound(k) == IF k = 0 THEN 0
                    ELSE IF k = n + 1 THEN Len(s) + 1
                    ELSE CHOOSE i \in commas :
                           Cardinality({ j \in commas : j < i }) = k - 1
    IN [k \in 1..(n + 1) |-> SubSeq(s, bound(k - 1) + 1, bound(k) - 1)]

\* Item p without the whitespace around it.
Trimmed(p) ==
    LET ink == { i \in 1..Len(p) : p[i] # " " }
    IN IF ink = {} THEN << >>
       ELSE SubSeq(p, CHOOSE i \in ink : \A j \in ink : i <= j,
                      CHOOSE i \in ink : \A j \in ink : j <= i)

\* The tags a comma-separated string stands for: its items in order,
\* trimmed, the empty ones dropped.
TagsOf(s) ==
    LET items == ItemsOf(s)
        kept  == { k \in 1..Len(items) : Trimmed(items[k]) # << >> }
        nth(i) == CHOOSE k \in kept : Cardinality({ j \in kept : j < k }) = i - 1
    IN [i \in 1..Cardinality(kept) |-> Trimmed(items[nth(i)])]

\* C15: parse_tags maps a comma-separated string to its items in order,
\* each trimmed and the empty ones dropped, and an absent or empty string
\* to None; the create command with absent or empty --tags creates a note
\* with empty tags, and the update command with absent or empty --tags
\* leaves the tags of the note file and of the index entry as they were;
\* otherwise both store the parsed items.
C15_ParseTags ==
    /\ [](\A s \in TagStrings :
            IF s = None \/ s[1] = << >>
            THEN parse_tags(s) = None
            ELSE parse_tags(s) = Some(TagsOf(s[1])))
    /\ [][ ret'.op = "create" =>
           \A a \in CliCreateArgs :
             CmdCreate(a[1], a[2], a[3]) =>
               LET id == ret'.arg
                   stored == IF a[3] = None \/ a[3][1] = << >> THEN << >>
                             ELSE TagsOf(a[3][1])
               IN /\ ret'.val[1].tags = stored
                  /\ files'[id].tags = stored
                  /\ IndexGet(index', id).tags = stored ]_vars
    /\ [][ ret'.op = "update" =>
           \A a \in CliUpdateArgs :
             (get_note(ret'.arg) # None /\ CmdUpdate(ret'.arg, a[1], a[2], a[3])) =>
               LET id == ret'.arg
                   stored == IF a[3] = None \/ a[3][1] = << >> THEN files[id].tags
                             ELSE TagsOf(a[3][1])
               IN /\ ret'.val[1].tags = stored
                  /\ files'[id].tags = stored
                  /\ IndexGet(index', id).tags = stored ]_vars

\* C15 witness: a note created with --tags " a ,, B" has the tags "a" and
\* "B" after an update command with --tags "".
C15_Witness ==
    /\ ret.op = "update"
    /\ ret.exc = FALSE
    /\ ret.val # None
    /\ ret.val[1].tags = <<TagA, TagB>>
    /\ ret.val[1].title = TitleB
    /\ ret.val[1].content = ContentA
    /\ parse_tags(Some(<<" ", "a", " ", ",", ",", " ", "B">>)) = Some(<<TagA, TagB>>)
    /\ parse_tags(Some(<< >>)) = None

\* C16: the command layer returns a status other than 0 exactly when no
\* command is given, when view or update is given an id get_note finds no
\* note for, and when delete is given an id that is not in the index;
\* create, list, search (also when nothing matches) and every view, update
\* and delete that finds its note return 0.
C16_ExitStatus ==
    /\ [](/\ process_command(None, None) # 0
          /\ \A tag \in TagQueries :
               process_command(Some("list"), list_notes(tag)) = 0
          /\ \A q \in Queries :
               process_command(Some("search"), search_notes(q)) = 0
          /\ \A id \in NoteIds :
               (process_command(Some("view"), get_note(id)) # 0)
                 <=> (id \notin DOMAIN files)
          /\ \A id \in NoteIds :
               process_command(Some("view"), get_note(id)) \in {0, 1})
    /\ [][ ret'.op = "create" =>
             process_command(Some("create"), ret'.val) = 0 ]_vars
    /\ [][ ret'.op = "update" =>
           \A a \in CliUpdateArgs :
             CmdUpdate(ret'.arg, a[1], a[2], a[3]) =>
               ((process_command(Some("update"), ret'.val) # 0)
                  <=> (ret'.arg \notin DOMAIN files)) ]_vars
    /\ [][ ret'.op = "delete" =>
             (CmdDelete(ret'.arg) =>
               ((process_command(Some("delete"), ret'.val) # 0)
                  <=> (ret'.arg \notin IndexKeys(index)))) ]_vars

\* C16 witness: the last command was a delete that found its note, a view
\* of that id now returns 1, and the search for "BA" matches nothing while
\* another note is stored.
C16_Witness ==
    /\ ret.op = "delete"
    /\ ret.val = TRUE
    /\ process_command(Some("delete"), ret.val) = 0
    /\ process_command(Some("view"), get_note(ret.arg)) = 1
    /\ index # << >>
    /\ search_notes(<<"B", "A">>) = << >>
    /\ process_command(Some("search"), search_notes(<<"B", "A">>)) = 0

\* Whether create_note was interrupted after it wrote the file of id.
Orphan(id) == <<"create", id>> \in interrupts

\* C17: create_note writes the note file before the index entry exists:
\* index.json never gains an entry whose file is not written; and after
\* create_note was interrupted between its file write and its index.json
\* write, the file is on disk and, for every manager constructed on the
\* directory later, its id is not in the index: get_note and update_note
\* return no note, delete_note returns False, none of them raises or
\* touches the file, and list_notes and search_notes do not return the id.
C17_OrphanUnreachable ==
    /\ [][ \A id \in IndexKeys(indexFile') \ IndexKeys(indexFile) :
             id \in DOMAIN files' ]_vars
    /\ [](\A id \in NoteIds :
            Orphan(id) =>
              /\ id \in DOMAIN files
              /\ id \notin IndexKeys(indexFile)
              /\ mgr = "up" =>
                   /\ get_note(id) = None
                   /\ \A tag \in TagQueries : id \notin RecordIds(list_notes(tag))
                   /\ \A q \in Queries :
                        /\ ~search_notes_raises(index, files, q, isoformat(now), uuid4)
                        /\ id \notin RecordIds(search_notes(q)))
    /\ [][ ret'.op = "update" =>
           \A a \in UpdateArgs :
             (Orphan(ret'.arg) /\ UpdateNote(ret'.arg, a[1], a[2], a[3])) =>
               (ret'.exc = FALSE /\ ret'.val = None /\ files' = files) ]_vars
    /\ [][ ret'.op = "delete" =>
           ((Orphan(ret'.arg) /\ DeleteNote(ret'.arg)) =>
               (ret'.exc = FALSE /\ ret'.val = FALSE /\ files' = files)) ]_vars

\* C17 witness: a manager constructed after an interrupted create_note
\* holds another note in its index, and delete_note of the orphan's id has
\* returned False.
C17_Witness ==
    /\ mgr = "up"
    /\ index # << >>
    /\ ret.op = "delete"
    /\ ret.exc = FALSE
    /\ ret.val = FALSE
    /\ Orphan(ret.arg)
    /\ ret.arg \in DOMAIN files

\* Whether the entry index.json holds for id has the title, tags and
\* timestamps of the note file of id.
EntryMatchesFile(id) ==
    LET e == IndexGet(indexFile, id)
        f == files[id]
    IN /\ e.title = f.title
       /\ e.tags = f.tags
       /\ e.created_at = f.created_at
       /\ e.updated_at = f.updated_at

\* C18: create_note, update_note and delete_note apply their note-file
\* effect before they rewrite index.json.  A step that changes index.json
\* is a completed call: the entry it adds or changes then matches the note
\* file and the entry it removes has no file.  An interrupted call has
\* not changed index.json.  So in every state, also between an
\* interruption and the restart, index.json and the note files differ in
\* three ways only: a file without entry, left by an interrupted
\* create_note; an entry without file, left by an interrupted delete_note;
\* a file and an entry that differ in title, tags or updated_at, left by
\* an interrupted update_note, where the entry's updated_at is not later
\* than the file's and created_at is the same.
C18_FileEffectBeforeIndex ==
    /\ [][ indexFile' # indexFile =>
             /\ mgr' = "up"
             /\ \A id \in IndexKeys(indexFile') :
                  (id \notin IndexKeys(indexFile)
                     \/ IndexGet(indexFile', id) # IndexGet(indexFile, id)) =>
                    (id \in DOMAIN files' /\ EntryMatchesFile(id)')
             /\ \A id \in IndexKeys(indexFile) \ IndexKeys(indexFile') :
                  id \notin DOMAIN files' ]_vars
    /\ [][ (mgr = "up" /\ mgr' = "down") => indexFile' = indexFile ]_vars
    /\ [](\A id \in NoteIds :
            /\ (id \in DOMAIN files /\ id \notin IndexKeys(indexFile))
                 => <<"create", id>> \in interrupts
            /\ (id \in IndexKeys(indexFile) /\ id \notin DOMAIN files)
                 => <<"delete", id>> \in interrupts
            /\ (id \in IndexKeys(indexFile) /\ id \in DOMAIN files)
                 => /\ IndexGet(indexFile, id).created_at = files[id].created_at
                    /\ StrLeq(IndexGet(indexFile, id).updated_at, files[id].updated_at)
                    /\ EntryMatchesFile(id) \/ <<"update", id>> \in interrupts)

\* C18 witness: an interrupted update_note has left a note file with
\* another title and a later updated_at than its entry in index.json, and
\* the create_note of the next manager was interrupted too: its file has
\* no entry, and no manager is up.
C18_Witness ==
    /\ mgr = "down"
    /\ \E id \in IndexKeys(indexFile) \cap DOMAIN files :
         /\ IndexGet(indexFile, id).title # files[id].title
         /\ StrLess(IndexGet(indexFile, id).updated_at, files[id].updated_at)
         /\ <<"update", id>> \in interrupts
    /\ \E id \in DOMAIN files :
         id \notin IndexKeys(indexFile) /\ <<"create", id>> \in interrupts

\* C20: for an id that is in the index while its note file is missing,
\* get_note returns no note and does not raise; list_notes returns its
\* entry (under a tag, when the entry has the tag); search_notes does not
\* raise and returns the entry, as a title match, exactly when the query
\* is in the entry's title, case ignored - whatever the content was.
C20_StaleEntry ==
    \A id \in NoteIds :
        (mgr = "up" /\ StaleEntry(id)) =>
          /\ get_note(id) = None
          /\ id \in RecordIds(list_notes(None))
          /\ \A tag \in TagQueries :
               (id \in RecordIds(list_notes(tag)))
                 <=> (tag = None \/ \E k \in DOMAIN IndexGet(index, id).tags :
                                       IndexGet(index, id).tags[k] = tag[1])
          /\ \A q \in Queries :
               LET recs == search_notes(q)
               IN /\ ~search_notes_raises(index, files, q, isoformat(now), uuid4)
                  /\ (id \in RecordIds(recs))
                       <=> ContainsIgnoringCase(q, IndexGet(index, id).title)
                  /\ \A i \in 1..Len(recs) :
                       recs[i].id = id => recs[i].matched = "title"

\* C20 witness: after an interrupted delete_note and a restart, the entry
\* of a note titled "b" (whose content held an "a") is in the index with
\* its file missing, next to a note whose file exists: list_notes returns
\* both, the search for "b" returns the stale entry, the search for "a"
\* does not.
C20_Witness ==
    /\ mgr = "up"
    /\ Len(index) = 2
    /\ \E id \in NoteIds :
         /\ StaleEntry(id)
         /\ <<"delete", id>> \in interrupts
         /\ IndexGet(index, id).title = TitleB
         /\ Len(list_notes(None)) = 2
         /\ id \in RecordIds(search_notes(<<"b">>))
         /\ id \notin RecordIds(search_notes(<<"a">>))

\* A step in which create_note, update_note or delete_note ran up to its
\* _save_index.
SavedIndex ==
    /\ nops' = nops + 1
    /\ ret'.exc = FALSE
    /\ \/ ret'.op = "create"
       \/ ret'.op = "update" /\ ret'.val # None
       \/ ret'.op = "delete" /\ ret'.val = TRUE

\* C19: with two managers on one directory, a call that saves the index
\* writes the calling manager's own index as the whole of index.json:
\* every entry index.json held for an id the calling manager does not
\* know - a note the other manager created - is gone from index.json,
\* while its note file stays.
C19_LostIndexEntry ==
    [][ (index2 # None /\ SavedIndex) =>
          /\ indexFile' = index'
          /\ \A x \in IndexKeys(indexFile) \ IndexKeys(index) :
               /\ x \notin IndexKeys(indexFile')
               /\ x \in DOMAIN files => x \in DOMAIN files' ]_vars

\* C19 witness: two managers were constructed on the empty directory, one
\* created note 1, then the other created note 2: index.json has no entry
\* for note 1, whose file exists and which was never deleted.
C19_Witness ==
    /\ index2 # None
    /\ nops = 2
    /\ DOMAIN files = {1, 2}
    /\ deleted = {}
    /\ 1 \in DOMAIN lastRet
    /\ 1 \notin IndexKeys(indexFile)
    /\ 2 \in IndexKeys(indexFile)
    /\ 1 \in IndexKeys(index2[1])
    /\ IndexKeys(index) = {2}

\* C21: every successful update_note, also one with no title, content or
\* tags, sets updated_at to its reading of the clock (now') in the note
\* file, in the index entry and in index.json; and when that reading is
\* later than the last one, the updated note is the first record of
\* list_notes().
C21_UpdateRefreshesStamp ==
    [][ ret'.op = "update" =>
        \A a \in UpdateArgs :
          (get_note(ret'.arg) # None /\ UpdateNote(ret'.arg, a[1], a[2], a[3])) =>
            LET id == ret'.arg
            IN /\ files'[id].updated_at = isoformat(now')
               /\ IndexGet(index', id).updated_at = isoformat(now')
               /\ IndexGet(indexFile', id).updated_at = isoformat(now')
               /\ ret'.val[1].updated_at = isoformat(now')
               /\ now' > now => list_notes_in(index', None)[1].id = id ]_vars

\* C21 witness: of two notes, the one created first (as "Ab", "a", no
\* tags) was updated with no argument at a later clock reading: its fields
\* are as created, its updated_at is new and it is the first record of
\* list_notes().
C21_Witness ==
    /\ ret.op = "update"
    /\ ret.exc = FALSE
    /\ ret.val # None
    /\ Len(index) = 2
    /\ index[1].id = ret.arg
    /\ ret.val[1].title = TitleAb
    /\ ret.val[1].content = ContentA
    /\ ret.val[1].tags = << >>
    /\ StrLess(index[2].info.updated_at, ret.val[1].updated_at)
    /\ list_notes(None)[1].id = ret.arg

\* C22: get_note, list_notes and search_notes in every case, and
\* update_note and delete_note when they return not-found (no note,
\* False), leave the index in memory, index.json and every note file as
\* they were.
C22_ReadsChangeNothing ==
    /\ [][ (\/ \E id \in NoteIds : GetNote(id)
            \/ \E tag \in TagQueries : ListNotes(tag)
            \/ \E q \in Queries : SearchNotes(q)) =>
             UNCHANGED <<index, indexFile, files>> ]_vars
    /\ [][ ret'.op = "update" =>
           \A a \in UpdateArgs :
             (UpdateNote(ret'.arg, a[1], a[2], a[3])
                /\ ret'.exc = FALSE /\ ret'.val = None) =>
               UNCHANGED <<index, indexFile, files>> ]_vars
    /\ [][ ret'.op = "delete" =>
           ((DeleteNote(ret'.arg) /\ ret'.exc = FALSE /\ ret'.val = FALSE) =>
               UNCHANGED <<index, indexFile, files>>) ]_vars

\* C22 witness: update_note has returned no note for an id whose entry is
\* still in the index, in memory and in index.json, after an interrupted
\* delete_note removed its file.
C22_Witness ==
    /\ mgr = "up"
    /\ ret.op = "update"
    /\ ret.exc = FALSE
    /\ ret.val = None
    /\ <<"delete", ret.arg>> \in interrupts
    /\ ret.arg \in IndexKeys(index)
    /\ ret.arg \in IndexKeys(indexFile)
    /\ ~PathExists(files, ret.arg)

\* C23: create_note, update_note(id) and delete_note(id) leave every other
\* id as it was: its note file is present or absent as before with the
\* same six fields (the whole stored record), and its entry is present or
\* absent as before with the same four fields, in the index in memory and
\* in index.json.
C23_Isolation ==
    [][ ret'.op \in {"create", "update", "delete"} =>
        \A other \in NoteIds \ {ret'.arg} :
          /\ (other \in DOMAIN files') = (other \in DOMAIN files)
          /\ other \in DOMAIN files =>
               /\ files'[other].id = files[other].id
               /\ files'[other].title = files[other].title
               /\ files'[other].content = files[other].content
               /\ files'[other].tags = files[other].tags
               /\ files'[other].created_at = files[other].created_at
               /\ files'[other].updated_at = files[other].updated_at
          /\ (other \in IndexKeys(index')) = (other \in IndexKeys(index))
          /\ other \in IndexKeys(index) =>
               IndexGet(index', other) = IndexGet(index, other)
          /\ (other \in IndexKeys(indexFile')) = (other \in IndexKeys(indexFile))
          /\ other \in IndexKeys(indexFile) =>
               IndexGet(indexFile', other) = IndexGet(indexFile, other) ]_vars

\* C23 witness: delete_note has removed one note while the file and the
\* entry of another note, which has tags, are still there.
C23_Witness ==
    /\ ret.op = "delete"
    /\ ret.exc = FALSE
    /\ ret.val = TRUE
    /\ Len(index) = 1
    /\ index[1].id # ret.arg
    /\ index[1].id \in DOMAIN files
    /\ files[index[1].id].tags # << >>
    /\ IndexGet(indexFile, index[1].id).tags = files[index[1].id].tags

\* ------------------------------------------- objects shared with the caller
\* The tags lists a caller may append.
CallerTags == { TagA, TagB }

\* The caller appends `tag` to the tags list of the Note that create_note or
\* update_note last returned for id (note.tags.append(tag)).  The index
\* entry holds that same list object: create_note and update_note store
\* note.tags itself in self.index[note.id]["tags"], while the note file and
\* index.json hold what json.dump wrote at the time of the call.
CallerMutatesTags(id, tag) ==
    /\ mgr = "up"
    /\ nops < MaxOps
    /\ id \in DOMAIN lastRet
    /\ id \in IndexKeys(index)
    /\ lastRet' = [lastRet EXCEPT ![id].tags = Append(@, tag)]
    /\ index' = IndexSet(index, id,
                         [IndexGet(index, id) EXCEPT !.tags = Append(@, tag)])
    /\ ret' = [op |-> "caller", arg |-> id, val |-> None, exc |-> FALSE]
    /\ nops' = nops + 1
    /\ UNCHANGED <<indexFile, files, now, used, mgr, deleted, interrupts,
                   created, indexJson, index2>>

NextAlias ==
    \/ Next
    \/ \E id \in NoteIds, tag \in CallerTags : CallerMutatesTags(id, tag)

SpecAlias == Init /\ [][NextAlias]_vars

\* C24 as stated: when the caller mutates the tags list of a returned Note
\* (or the list it passed in) after the call, the index in memory does not
\* change, stays equal to index.json, and list_notes(tag) returns what it
\* returned before.
C24_IndexIndependentOfCaller ==
    [][ ret'.op = "caller" =>
        \A id \in NoteIds, tag \in CallerTags :
          CallerMutatesTags(id, tag) =>
            /\ index' = index
            /\ index' = indexFile'
            /\ \A q \in TagQueries :
                 list_notes_in(index', q) = list_notes_in(index, q) ]_vars

====
